---- MODULE Spec2Model ----
(***************************************************************************)
(* DocAsk / ClauseWise backend: the document-analysis job pipeline.        *)
(*                                                                         *)
(* State: the documents and clauses collections, the uploaded files, the   *)
(* legal playbooks, and the Celery jobs (reported state, position in the   *)
(* task body, local variables).  One action per storage or result-backend  *)
(* call of a task body, so that jobs of a worker pool interleave at the    *)
(* granularity at which the code touches shared state.                     *)
(*                                                                         *)
(* Abstractions                                                            *)
(*  - a timestamp (datetime.utcnow()) is the id of the job that took it;   *)
(*    0 is "field absent";                                                 *)
(*  - an Optional value is a sequence of length <= 1 (None == << >>);      *)
(*  - a file is a sequence of units (PDF pages / DOCX paragraphs); the     *)
(*    extracted text is the sequence of the numbers of the units that      *)
(*    yielded text, "" being the empty sequence; every unit that yields    *)
(*    text carries one sentence the rule engine emits as a clause;         *)
(*  - every storage call either returns or raises (input ok); a call that  *)
(*    returns behaves as the pymongo call of that name;                    *)
(*  - jobs are submitted by upload_document and by any producer that calls *)
(*    task.delay (SubmitTask): the ids a producer passes are unchecked.    *)
(*                                                                         *)
(* Specifications                                                          *)
(*  - Spec, FairSpec: the jobs of one worker on one document, submitted by *)
(*    an upload and by any producer;                                       *)
(*  - ApiSpec: the HTTP handlers (upload with its rejections, delete, job  *)
(*    status) served while the job of the upload runs;                     *)
(*  - ConcSpec: the jobs of several documents on a pool of two workers;    *)
(*  - AuthSpec: the handlers of a document and the job-status poll asked  *)
(*    by the uploader and by another user, while jobs of the document run; *)
(*  - LibSpec: the parser and the analysis service called directly, the    *)
(*    text being a sequence of words and sentence terminators (in the job  *)
(*    pipeline only the number of clauses of a text matters).              *)
(***************************************************************************)
EXTENDS Integers, Sequences, FiniteSets, TLC

\* ---------------------------------------------------------------- bounds
\* jobs submitted over the life of the system
MaxJobs == 2

\* ------------------------------------------------------ program constants
\* documents.py:25  MAX_FILE_SIZE = 10 * 1024 * 1024, in MB
MAX_FILE_SIZE == 10
\* documents.py:26
ALLOWED_EXTENSIONS == {".pdf", ".docx", ".doc"}
\* documents.py:27-31
ALLOWED_MIME_TYPES == {"application/pdf", "application/vnd.openxmlformats-officedocument.wordprocessingml.document", "application/msword"}

\* models.py:23-27 DocumentStatus
PENDING    == "pending"
PROCESSING == "processing"
COMPLETE   == "complete"
ERROR      == "error"
DocumentStatus == {PENDING, PROCESSING, COMPLETE, ERROR}

\* --------------------------------------------------------------- identifiers
DocIds  == {1}
JobIds  == 1..MaxJobs
Users   == {1}
\* the worker pool: one job runs per worker process
Workers == {1}
\* an id string that ObjectId() rejects, and a well-formed id of no record
BadId   == -1
GhostId == 0
\* the legal_playbooks collection (playbook CRUD is outside this model)
Playbooks == {1}

\* bson.ObjectId(document_id): raises on a malformed id (tasks.py:32-35)
ObjectIdValid(id) == id >= 0

\* --------------------------------------------------------------- Optional
None == << >>
Some(x) == << x >>
IsNone(o) == o = << >>
Get(o) == o[1]

\* error messages, str(e)
E_InvalidId == "Invalid document ID format"
E_InvalidIds == "Invalid ID format"
E_DocNotFound == "Document not found"
E_PlaybookNotFound == "Playbook not found"
E_Extract == "Failed to extract text from document"
E_Storage == "storage error"
E_KeyError == "'processing_started_at'"
E_TypeError == "expected string or bytes-like object"
E_FileNotFound == "No such file or directory"

\* ------------------------------------------------------------------ files
\* a unit (PDF page, DOCX paragraph) yields text, is blank, or throws when
\* read; the uploaded files tried: one whose every unit fails, one with text
UnitKinds == {"text", "blank", "throws"}
FileSamples == {<< "throws" >>, << "blank", "text" >>}
MimeSamples == {"application/pdf", "application/msword", "text/plain"}

RECURSIVE PdfPages(_, _)
\* _parse_pdf page loop: a page with text is kept with its page marker, a
\* blank page is dropped, a page whose extraction throws is skipped
PdfPages(units, n) ==
  IF n > Len(units) THEN << >>
  ELSE IF units[n] = "text" THEN << n >> \o PdfPages(units, n + 1)
  ELSE PdfPages(units, n + 1)

\* DocumentParser._parse_pdf: "" when no page yields text
ParsePdf(units) == Some(PdfPages(units, 1))

\* DocumentParser._parse_docx: non-blank paragraphs in order; any exception
\* is re-raised (here: None stands for "raised")
ParseDocx(units) ==
  IF \E i \in 1..Len(units) : units[i] = "throws" THEN None
  ELSE Some(PdfPages(units, 1))

\* DocumentParser.extract_text: None when the file is missing, the MIME type
\* has no parser, or the parser raised
ExtractText(fs, file_path, mime_type) ==
  IF file_path \notin DOMAIN fs THEN None
  ELSE IF mime_type \notin ALLOWED_MIME_TYPES THEN None
  ELSE IF mime_type = "application/pdf" THEN ParsePdf(fs[file_path])
  ELSE ParseDocx(fs[file_path])

\* document_parser.py:130-155 _get_pdf_metadata: {} when PdfReader cannot
\* read the file (parses: the file is a well-formed document of its type)
GetPdfMetadata(units, parses) ==
  IF parses THEN [page_count |-> Len(units), encrypted |-> FALSE] ELSE << >>

\* document_parser.py:157-175 _get_docx_metadata: {} when docx.Document
\* cannot read the file
GetDocxMetadata(units, parses) ==
  IF parses THEN [paragraph_count |-> Len(units), table_count |-> 0] ELSE << >>

\* document_parser.py:107-128 get_document_metadata: os.path.getsize of
\* line 115 is evaluated before the try block and raises for a file that is
\* not there; metadata.update lets the keys of the helper win
get_document_metadata(fs, file_path, mime_type, parses) ==
  IF file_path \notin DOMAIN fs THEN [raised |-> Some(E_FileNotFound)]
  ELSE LET metadata == [file_size |-> Len(fs[file_path]),
                        mime_type |-> mime_type, parser_version |-> "1.0"]
           specific ==
             IF mime_type = "application/pdf"
             THEN GetPdfMetadata(fs[file_path], parses)
             ELSE IF mime_type \in ALLOWED_MIME_TYPES
             THEN GetDocxMetadata(fs[file_path], parses)
             ELSE << >>
       IN [raised |-> None, metadata |-> specific @@ metadata]

\* "if extracted_text is None": "" passes
FalsyNoneOnly(t) == IsNone(t)

\* Python truthiness of Optional[str]: None and "" are falsy
Falsy(t) == IsNone(t) \/ Get(t) = << >>

\* AnalysisService.analyze_document -> RuleBasedStrategy.analyze: the number
\* of clauses of the result; re.sub on None raises TypeError (None stands
\* for "raised")
AnalyzeDocument(t) == IF IsNone(t) THEN None ELSE Some(Len(Get(t)))

\* --------------------------------------------------------- the rule engine
\* A text is a sequence of tokens: words, whitespace runs ("\n") and the
\* sentence terminators; between two words there is one blank.  A sentence
\* and a phrase are sequences of words.  "keyword in text" and re.search are
\* substring tests: a phrase of several words occurs where its words stand
\* next to each other, a phrase of one word also where a word contains it
\* (Inside).  Scores are in tenths.

\* str.lower() on the words that are not lower case already
LowerMap == [w \in {"The", "Vendor", "Client", "SHALL", "Party"} |->
               CASE w = "The" -> "the" [] w = "Vendor" -> "vendor"
                 [] w = "Client" -> "client" [] w = "SHALL" -> "shall"
                 [] w = "Party" -> "party"]
Lower(w) == IF w \in DOMAIN LowerMap THEN LowerMap[w] ELSE w

\* words that contain a shorter word of the tables
Inside == {<< "reliable", "liable" >>, << "warranty", "warrant" >>,
           << "copyrighted", "copyright" >>}
Contains(w, s) == w = s \/ << w, s >> \in Inside

Whitespace == {"\n"}
Terminators == {".", "!", "?"}

\* analysis_service.py:140-145 _normalize_text: whitespace runs collapse to
\* the one blank between tokens, everything is lower case
NormalizeText(text) ==
  LET kept == SelectSeq(text, LAMBDA t : t \notin Whitespace)
  IN [i \in 1..Len(kept) |-> Lower(kept[i])]

RECURSIVE SplitOn(_, _, _)
\* re.split(r'[.!?]+', text), the current piece being cur
SplitOn(text, i, cur) ==
  IF i > Len(text) THEN << cur >>
  ELSE IF text[i] \in Terminators
       THEN IF i > 1 /\ text[i - 1] \in Terminators
            THEN SplitOn(text, i + 1, cur)
            ELSE << cur >> \o SplitOn(text, i + 1, << >>)
       ELSE SplitOn(text, i + 1, Append(cur, text[i]))

\* analysis_service.py:168-172 _split_into_sentences: empty pieces dropped
SplitIntoSentences(text) ==
  SelectSeq(SplitOn(text, 1, << >>), LAMBDA piece : piece # << >>)

\* phrase in sentence
HasPhrase(sentence, phrase) ==
  \E i \in 1..Len(sentence) :
    IF Len(phrase) = 1 THEN Contains(sentence[i], phrase[1])
    ELSE /\ i + Len(phrase) - 1 <= Len(sentence)
         /\ \A k \in 1..Len(phrase) : sentence[i + k - 1] = phrase[k]

\* analysis_service.py:176-180 legal_indicators
LegalIndicators ==
  {"shall", "party", "agreement", "contract", "terms", "conditions",
   "liable", "rights", "obligations", "terminate", "breach", "indemnify",
   "warrant"}

\* analysis_service.py:174-183 _contains_legal_language
ContainsLegalLanguage(sentence) ==
  \E w \in LegalIndicators : HasPhrase(sentence, << w >>)

\* the length test of _extract_clauses is dropped
QualifiesAnyLength(sentence) == ContainsLegalLanguage(sentence)

\* analysis_service.py:153-158 a sentence becomes a clause: at least 5
\* whitespace-separated words and legal language
Qualifies(sentence) == Len(sentence) >= 5 /\ ContainsLegalLanguage(sentence)

\* analysis_service.py:147-166 _extract_clauses
ExtractClauses(text) == SelectSeq(SplitIntoSentences(text), Qualifies)

\* analysis_service.py:71-120 _initialize_legal_patterns, in dict order; a
\* regex alternative (rights?, secrets?, \d+) is one phrase per reading
CategoryOrder ==
  << "liability", "termination", "payment", "intellectual_property",
     "confidentiality", "governing_law" >>

LegalPatterns ==
  [c \in {CategoryOrder[i] : i \in 1..Len(CategoryOrder)} |->
     CASE c = "liability" ->
            {<< "liable", "for", "any", "damages" >>,
             << "limitation", "of", "liability" >>,
             << "shall", "not", "be", "liable" >>,
             << "indemnify", "and", "hold", "harmless" >>,
             << "gross", "negligence" >>,
             << "consequential", "damages" >>}
       [] c = "termination" ->
            {<< "terminate", "this", "agreement" >>,
             << "upon", "termination" >>,
             << "breach", "of", "contract" >>,
             << "notice", "of", "termination" >>,
             << "cure", "period" >>,
             << "immediate", "termination" >>}
       [] c = "payment" ->
            {<< "payment", "terms" >>, << "invoice", "date" >>,
             << "late", "payment" >>, << "interest", "on", "overdue" >>,
             << "payment", "schedule" >>, << "net", "30", "days" >>}
       [] c = "intellectual_property" ->
            {<< "intellectual", "property", "right" >>,
             << "intellectual", "property", "rights" >>,
             << "proprietary", "information" >>,
             << "trade", "secret" >>, << "trade", "secrets" >>,
             << "copyright" >>, << "patent" >>, << "trademark" >>}
       [] c = "confidentiality" ->
            {<< "confidential", "information" >>, << "non-disclosure" >>,
             << "proprietary", "and", "confidential" >>,
             << "confidentiality", "agreement" >>,
             << "return", "confidential", "information" >>}
       [] c = "governing_law" ->
            {<< "governed", "by", "the", "laws", "of" >>,
             << "jurisdiction", "and", "venue" >>,
             << "dispute", "resolution" >>, << "arbitration" >>,
             << "applicable", "law" >>}]

\* re.search of some pattern of the category
MatchesCategory(sentence, c) ==
  \E pattern \in LegalPatterns[c] : HasPhrase(sentence, pattern)

\* the phrases of a list that occur in the sentence
Found(sentence, phrases) == {ph \in phrases : HasPhrase(sentence, ph)}

\* the regex a phrase is a reading of
PatternOf(phrase) ==
  IF phrase = << "intellectual", "property", "rights" >>
  THEN << "intellectual", "property", "right" >>
  ELSE IF phrase = << "trade", "secrets" >> THEN << "trade", "secret" >>
  ELSE phrase

\* len(self.legal_patterns.get(category, []))
TotalPatterns(category) ==
  Cardinality({PatternOf(ph) : ph \in LegalPatterns[category]})

\* analysis_service.py:294-296 the patterns of the category that match
PatternMatches(sentence, category) ==
  Cardinality({PatternOf(ph) : ph \in Found(sentence, LegalPatterns[category])})

RECURSIVE FirstCategory(_, _)
FirstCategory(sentence, i) ==
  IF i > Len(CategoryOrder) THEN "general"
  ELSE IF MatchesCategory(sentence, CategoryOrder[i]) THEN CategoryOrder[i]
  ELSE FirstCategory(sentence, i + 1)

\* the category with the most matching patterns, the earlier on a tie
CategorizeClauseStrongest(sentence) ==
  LET hit == {i \in 1..Len(CategoryOrder) :
                MatchesCategory(sentence, CategoryOrder[i])}
      n(i) == PatternMatches(sentence, CategoryOrder[i])
  IN IF hit = {} THEN "general"
     ELSE CategoryOrder[CHOOSE i \in hit :
            \A k \in hit : n(i) > n(k) \/ (n(i) = n(k) /\ i <= k)]

\* analysis_service.py:215-224 _categorize_clause
CategorizeClause(sentence) == FirstCategory(sentence, 1)

\* analysis_service.py:122-138 _initialize_risk_keywords
HighRisk ==
  {<< "unlimited", "liability" >>, << "personal", "guarantee" >>,
   << "liquidated", "damages" >>, << "punitive", "damages" >>,
   << "immediate", "termination" >>, << "no", "cure", "period" >>,
   << "waiver", "of", "rights" >>, << "hold", "harmless" >>,
   << "gross", "negligence" >>}
MediumRisk ==
  {<< "indemnification" >>, << "limitation", "of", "liability" >>,
   << "consequential", "damages" >>,
   << "termination", "for", "convenience" >>, << "change", "of", "control" >>,
   << "assignment" >>}
LowRisk ==
  {<< "standard", "terms" >>, << "mutual", "agreement" >>,
   << "reasonable", "efforts" >>, << "good", "faith" >>,
   << "commercially", "reasonable" >>}

\* the score without line 271, the clamp
RiskScoreUnclamped(sentence) ==
  3 * Cardinality(Found(sentence, HighRisk))
    + 2 * Cardinality(Found(sentence, MediumRisk))
    - Cardinality(Found(sentence, LowRisk))

\* analysis_service.py:250-270 the score: +0.3 per high-risk, +0.2 per
\* medium-risk, -0.1 per low-risk phrase found, clamped to [0, 1]; in tenths
RiskScore(sentence) ==
  LET raw == 3 * Cardinality(Found(sentence, HighRisk))
               + 2 * Cardinality(Found(sentence, MediumRisk))
               - Cardinality(Found(sentence, LowRisk))
      capped == IF raw > 10 THEN 10 ELSE raw
  IN IF capped < 0 THEN 0 ELSE capped

\* the thresholds compared with > instead of >=
RiskLevelStrict(score) ==
  IF score > 7 THEN "critical"
  ELSE IF score > 5 THEN "high"
  ELSE IF score > 3 THEN "medium"
  ELSE "low"

\* analysis_service.py:272-281 the level of a score
RiskLevel(score) ==
  IF score >= 7 THEN "critical"
  ELSE IF score >= 5 THEN "high"
  ELSE IF score >= 3 THEN "medium"
  ELSE "low"

\* analysis_service.py:311-332 category_recommendations[category][:2]
CategoryRecommendations(category) ==
  CASE category = "liability" ->
         << "Consider adding mutual liability limitations",
            "Review indemnification scope and exclusions" >>
    [] category = "termination" ->
         << "Verify termination notice periods are reasonable",
            "Check for adequate cure periods" >>
    [] category = "payment" ->
         << "Confirm payment terms align with business practices",
            "Review late payment penalties" >>
    [] category = "confidentiality" ->
         << "Ensure confidentiality scope is appropriate",
            "Review return/destruction obligations" >>
    [] OTHER -> << >>

HighRiskBanner == "HIGH RISK: Review this clause carefully with legal counsel."

\* the banner is added whatever the level
GenerateRecommendationsBanner(category, risk_level) ==
  << HighRiskBanner >> \o CategoryRecommendations(category)

\* analysis_service.py:304-337 _generate_recommendations: the parts joined
\* by " | ", or the one part "No specific recommendations."
GenerateRecommendations(category, risk_level) ==
  LET parts == (IF risk_level \in {"critical", "high"}
                THEN << HighRiskBanner >> ELSE << >>)
                 \o CategoryRecommendations(category)
  IN IF parts = << >> THEN << "No specific recommendations." >> ELSE parts

\* a / b, kept as the fraction
Quotient(a, b) == [num |-> a, den |-> b]

\* pattern_matches / total_patterns + 0.5 without the min
ConfidenceScoreUncapped(sentence, category) ==
  IF category = "general" THEN Quotient(3, 10)
  ELSE Quotient(2 * PatternMatches(sentence, category) + TotalPatterns(category),
                2 * TotalPatterns(category))

\* analysis_service.py:285-302 _calculate_confidence_score: 0.3 for general,
\* else min(1.0, pattern_matches / total_patterns + 0.5)
ConfidenceScore(sentence, category) ==
  LET pattern_matches == IF category = "general" THEN 0
                         ELSE PatternMatches(sentence, category)
      total_patterns == IF category = "general" THEN 0
                        ELSE TotalPatterns(category)
  IN IF category = "general" THEN Quotient(3, 10)
     ELSE IF total_patterns = 0 THEN Quotient(1, 2)
     ELSE IF 2 * pattern_matches + total_patterns >= 2 * total_patterns
          THEN Quotient(1, 1)
     ELSE Quotient(2 * pattern_matches + total_patterns, 2 * total_patterns)

\* analysis_service.py:185-213 _analyze_clause
AnalyzeClause(sentence) ==
  LET category == CategorizeClause(sentence)
      risk_score == RiskScore(sentence)
      risk_level == RiskLevel(risk_score)
  IN [text |-> sentence, category |-> category, risk_score |-> risk_score,
      risk_level |-> risk_level,
      confidence_score |-> ConfidenceScore(sentence, category),
      recommendations |-> GenerateRecommendations(category, risk_level)]

RECURSIVE SumScores(_, _)
\* total_risk_score += clause['risk_score'], from clause i on
SumScores(cls, i) ==
  IF i > Len(cls) THEN 0 ELSE cls[i].risk_score + SumScores(cls, i + 1)

\* total_risk_score / (len(clauses) + 1)
AverageOffByOne(cls) ==
  IF cls = << >> THEN Quotient(0, 1)
  ELSE Quotient(SumScores(cls, 1), Len(cls) + 1)

\* analysis_service.py:379, documents.py:376  total_risk_score / len(clauses),
\* 0.0 for no clauses
Average(cls) ==
  IF cls = << >> THEN Quotient(0, 1)
  ELSE Quotient(SumScores(cls, 1), Len(cls))

\* a histogram: each value that occurs, with the number of its clauses
Histogram(cls, field) ==
  [v \in {cls[i][field] : i \in 1..Len(cls)} |->
     Cardinality({i \in 1..Len(cls) : cls[i][field] = v})]

\* analysis_service.py:350-382 _generate_analysis_summary
GenerateAnalysisSummary(cls) ==
  IF cls = << >>
  THEN [total_clauses |-> 0, risk_distribution |-> << >>,
        category_breakdown |-> << >>, overall_risk_score |-> Average(cls)]
  ELSE [total_clauses |-> Len(cls),
        risk_distribution |-> Histogram(cls, "risk_level"),
        category_breakdown |-> Histogram(cls, "category"),
        overall_risk_score |-> Average(cls),
        high_risk_clauses |->
          Cardinality({i \in 1..Len(cls) :
                         cls[i].risk_level \in {"critical", "high"}})]

\* analysis_service.py:32-69 RuleBasedStrategy.analyze
RuleBasedAnalyze(text) ==
  LET sentences == ExtractClauses(NormalizeText(text))
      analyzed_clauses == [i \in 1..Len(sentences) |-> AnalyzeClause(sentences[i])]
  IN [clauses |-> analyzed_clauses,
      summary |-> GenerateAnalysisSummary(analyzed_clauses),
      metadata |-> [strategy |-> "rule_based"]]

\* a model of its own that finds no clause
MLModelAnalyzeStub(text) ==
  [clauses |-> << >>, summary |-> GenerateAnalysisSummary(<< >>),
   metadata |-> [strategy |-> "ml_model",
                 note |-> "Using rule-based fallback - ML implementation pending"]]

\* analysis_service.py:384-408 MLModelStrategy.analyze: the rule-based
\* result under the name ml_model
MLModelAnalyze(text) ==
  LET result == RuleBasedAnalyze(text)
  IN [clauses |-> result.clauses, summary |-> result.summary,
      metadata |-> [strategy |-> "ml_model",
                    note |-> "Using rule-based fallback - ML implementation pending"]]

\* analysis_service.py:413-418 the registry and the default
Strategies == {"rule_based", "ml_model"}
DefaultStrategy == "rule_based"

\* an unknown name resolves to the other registered strategy
ResolveStrategyOther(strategy_name) ==
  IF IsNone(strategy_name) \/ Get(strategy_name) = "" THEN DefaultStrategy
  ELSE IF Get(strategy_name) \in Strategies THEN Get(strategy_name)
  ELSE "ml_model"

\* analysis_service.py:432-437  strategy_name or default, then
\* strategies.get(name), the default for a name not in the registry
ResolveStrategy(strategy_name) ==
  IF IsNone(strategy_name) \/ Get(strategy_name) = "" THEN DefaultStrategy
  ELSE IF Get(strategy_name) \in Strategies THEN Get(strategy_name)
  ELSE DefaultStrategy

\* analysis_service.py:420-448 AnalysisService.analyze_document; a text of
\* None makes re.sub raise, whatever the strategy
analyze_document(text, strategy_name) ==
  LET strategy == ResolveStrategy(strategy_name)
      result == IF strategy = "ml_model" THEN MLModelAnalyze(Get(text))
                ELSE RuleBasedAnalyze(Get(text))
  IN IF IsNone(text) THEN [raised |-> Some(E_TypeError)]
     ELSE [raised |-> None, clauses |-> result.clauses,
           summary |-> result.summary, metadata |-> result.metadata,
           strategy_used |-> strategy]

\* tasks.py:84-98 clause_doc: the row insert_one stores for a clause
ClauseDoc(document_id, clause_data) ==
  [document_id |-> document_id, text |-> clause_data.text,
   category |-> clause_data.category, risk_score |-> clause_data.risk_score,
   risk_level |-> clause_data.risk_level,
   confidence_score |-> clause_data.confidence_score,
   recommendations |-> clause_data.recommendations]

\* ------------------------------------------------------------------ state
\* docs, files, clauses: the documents collection, the upload directory, the
\* clauses collection; jobs: the Celery jobs; http: the HTTP request being
\* served and its response; pool: the number of worker processes of the
\* deployment; call: a direct call of a service function and its result
VARIABLES docs, files, clauses, jobs, http, pool, call

\* what no task body touches
env == << http, pool, call >>

vars == << docs, files, clauses, jobs, http, pool, call >>

\* pymongo find_one({"_id": id})
FindOne(coll, id) == IF id \in DOMAIN coll THEN Some(coll[id]) ELSE None

\* {"$set": set} applied to a record: the named fields are overwritten
SetFields(r, set) ==
  [f \in DOMAIN r \cup DOMAIN set |-> IF f \in DOMAIN set THEN set[f] ELSE r[f]]

\* update_many({}, {"$set": set}): the filter by _id is lost
UpdateEvery(coll, id, set) == [d \in DOMAIN coll |-> SetFields(coll[d], set)]

\* update_one(..., upsert=True): a filter that matches nothing inserts
UpdateOneUpsert(coll, id, set) ==
  IF id \in DOMAIN coll THEN [coll EXCEPT ![id] = SetFields(@, set)]
  ELSE (id :> set) @@ coll

\* pymongo update_one({"_id": id}, {"$set": set}) without upsert: a filter
\* that matches nothing changes nothing
UpdateOne(coll, id, set) ==
  IF id \in DOMAIN coll THEN [coll EXCEPT ![id] = SetFields(@, set)] ELSE coll

NoJob == [kind |-> "none", document_id |-> GhostId, playbook_id |-> GhostId,
          pc |-> "none", state |-> "NONE", document |-> None,
          extracted_text |-> None, n_clauses |-> 0, total_clauses |-> 0,
          err |-> None, returned |-> FALSE, raised |-> None,
          marked |-> FALSE, completed |-> FALSE, analyzed |-> FALSE,
          stamped |-> FALSE]

\* current_task.update_state(state=s, ...), and the state Celery itself
\* stores when the task starts, returns or raises
Report(job, s) == [job EXCEPT !.state = s]

\* no request served yet; input is what an upload carried (extension of the
\* file name, content length, content type), code the status code of the
\* response (0: none), body what a job-status response says
NoRequest == [op |-> "none", pc |-> "done", user |-> 0, document_id |-> GhostId,
              input |-> << >>, doc |-> None, code |-> 0, body |-> << >>]

NoCall == [fn |-> "none"]

Init ==
  /\ docs = << >>
  /\ files = << >>
  /\ clauses = {}
  /\ jobs = [j \in JobIds |-> NoJob]
  /\ http = NoRequest
  /\ pool = Cardinality(Workers)
  /\ call = NoCall

RECURSIVE MaxOf(_)
MaxOf(S) == IF S = {} THEN 0
            ELSE LET x == CHOOSE y \in S : TRUE
                     m == MaxOf(S \ {x})
                 IN IF x > m THEN x ELSE m

\* insert_one assigns a fresh ObjectId and uuid4 a fresh file name: an id is
\* never issued twice, also after a delete, while a job still names it
NewDocId ==
  MaxOf(DOMAIN docs \cup DOMAIN files
          \cup {jobs[j].document_id : j \in JobIds}) + 1
FreeJobs == {j \in JobIds : jobs[j].kind = "none"}
NewJobId == CHOOSE j \in FreeJobs : \A k \in FreeJobs : j <= k

\* task.delay(...): the job is queued, Celery reports PENDING
Enqueue(j, kind, d, pb) ==
  [jobs EXCEPT ![j] = [NoJob EXCEPT !.kind = kind, !.document_id = d,
                                    !.playbook_id = pb, !.pc = "queued",
                                    !.state = "PENDING"]]

\* POST /upload (documents.py upload_document)
upload_document(user, ext, size, mime, units) ==
  /\ ext # ""
  /\ ext \in ALLOWED_EXTENSIONS
  /\ size <= MAX_FILE_SIZE
  /\ mime \in ALLOWED_MIME_TYPES
  /\ NewDocId \in DocIds
  /\ FreeJobs # {}
  /\ LET d == NewDocId IN
     /\ files' = (d :> units) @@ files
     /\ docs' = (d :> [user_id |-> user, file_path |-> d, mime_type |-> mime,
                       status |-> PENDING, total_clauses_found |-> 0,
                       document_metadata |-> 0, error_message |-> None,
                       processing_started_at |-> 0,
                       processing_completed_at |-> 0,
                       extracted_text_length |-> None]) @@ docs
     /\ jobs' = Enqueue(NewJobId, "process", d, GhostId)
  /\ UNCHANGED << clauses, env >>

\* process_document.delay(id) / analyze_document_with_playbook.delay(id, pb)
\* from any producer: the id is whatever the producer passes
SubmitTask(kind, d, pb) ==
  /\ FreeJobs # {}
  /\ jobs' = Enqueue(NewJobId, kind, d, IF kind = "process" THEN GhostId ELSE pb)
  /\ UNCHANGED << docs, files, clauses, env >>

Running == {j \in JobIds : jobs[j].pc \notin {"none", "queued", "done"}}

\* a worker takes the job: task_track_started reports STARTED
WorkerStart(j) ==
  /\ jobs[j].pc = "queued"
  /\ Cardinality(Running) < pool
  /\ jobs' = [jobs EXCEPT ![j] = [Report(@, "STARTED") EXCEPT
                !.pc = IF jobs[j].kind = "process" THEN "p_load" ELSE "b_load"]]
  /\ UNCHANGED << docs, files, clauses, env >>

\* raise inside the try block of a task: remember the exception, go to the
\* except clause
Raise(job, e, handler) == [job EXCEPT !.err = Some(e), !.pc = handler]

\* -------------------------------------------------------- process_document
\* tasks.py:42-50  {"$set": {status: PROCESSING, processing_started_at: now}}
ProcessingUpdate(j) ==
  [status |-> PROCESSING, processing_started_at |-> j]

\* tasks.py:64-67  {"$set": {extracted_text_length: len(extracted_text)}}
TextLengthUpdate(t) ==
  [extracted_text_length |-> Some(Len(Get(t)))]

\* tasks.py:104-114  the Complete stamp, one update
CompleteUpdate(j, total) ==
  [status |-> COMPLETE, processing_completed_at |-> j,
   total_clauses_found |-> total, document_metadata |-> j]

\* tasks.py:147-156  the Error stamp, one update
ErrorUpdateNoMessage(j, e) ==
  [status |-> ERROR, processing_completed_at |-> j]

ErrorUpdate(j, e) ==
  [status |-> ERROR, error_message |-> e, processing_completed_at |-> j]

\* tasks.py:132  document['processing_started_at'] on the record as loaded
\* at line 37: a missing key raises KeyError
HasStartedKey(document) == document.processing_started_at # 0

\* tasks.py:26-39  first progress report, load the record
P_Load(j, ok) ==
  /\ jobs[j].pc = "p_load"
  /\ LET job == Report(jobs[j], "PROGRESS")
         id == job.document_id
         document == IF ObjectIdValid(id) THEN FindOne(docs, id) ELSE None
     IN jobs' = [jobs EXCEPT ![j] =
          IF ~ok THEN Raise(job, E_Storage, "p_handler")
          ELSE IF ~ObjectIdValid(id) THEN Raise(job, E_InvalidId, "p_handler")
          ELSE IF IsNone(document) THEN Raise(job, E_DocNotFound, "p_handler")
          ELSE [job EXCEPT !.document = document, !.pc = "p_mark"]]
  /\ UNCHANGED << docs, files, clauses, env >>

\* tasks.py:41-52  mark the document Processing
P_Mark(j, ok) ==
  /\ jobs[j].pc = "p_mark"
  /\ LET id == jobs[j].document_id IN
     IF ok
     THEN /\ docs' = UpdateOne(docs, id, ProcessingUpdate(j))
          /\ jobs' = [jobs EXCEPT ![j].pc = "p_extract",
                                  ![j].marked = id \in DOMAIN docs]
     ELSE /\ jobs' = [jobs EXCEPT ![j] = Raise(@, E_Storage, "p_handler")]
          /\ UNCHANGED docs
  /\ UNCHANGED << files, clauses, env >>

\* tasks.py:54-61  extract the text; a falsy result is fatal
P_Extract(j) ==
  /\ jobs[j].pc = "p_extract"
  /\ LET job == Report(jobs[j], "PROGRESS")
         document == Get(job.document)
         extracted_text == ExtractText(files, document.file_path,
                                       document.mime_type)
     IN jobs' = [jobs EXCEPT ![j] =
          IF Falsy(extracted_text)
          THEN Raise([job EXCEPT !.extracted_text = extracted_text],
                     E_Extract, "p_handler")
          ELSE [job EXCEPT !.extracted_text = extracted_text,
                           !.pc = "p_savelen"]]
  /\ UNCHANGED << docs, files, clauses, env >>

\* tasks.py:63-69  persist the extracted text length
P_SaveLen(j, ok) ==
  /\ jobs[j].pc = "p_savelen"
  /\ IF ok
     THEN /\ docs' = UpdateOne(docs, jobs[j].document_id,
                               TextLengthUpdate(jobs[j].extracted_text))
          /\ jobs' = [jobs EXCEPT ![j].pc = "p_analyze"]
     ELSE /\ jobs' = [jobs EXCEPT ![j] = Raise(@, E_Storage, "p_handler")]
          /\ UNCHANGED docs
  /\ UNCHANGED << files, clauses, env >>

\* tasks.py:71-81  run the analysis engine
P_Analyze(j) ==
  /\ jobs[j].pc = "p_analyze"
  /\ LET job == Report(jobs[j], "PROGRESS")
         analysis_result == AnalyzeDocument(job.extracted_text)
     IN jobs' = [jobs EXCEPT ![j] =
          IF IsNone(analysis_result)
          THEN Raise([job EXCEPT !.analyzed = TRUE], E_TypeError, "p_handler")
          ELSE [job EXCEPT !.analyzed = TRUE,
                           !.n_clauses = Get(analysis_result),
                           !.total_clauses = 0, !.pc = "p_save"]]
  /\ UNCHANGED << docs, files, clauses, env >>

\* tasks.py:83-100  one iteration of the clause loop
P_Insert(j, ok) ==
  /\ jobs[j].pc = "p_save"
  /\ jobs[j].total_clauses < jobs[j].n_clauses
  /\ IF ok
     THEN /\ clauses' = clauses \cup
               {[document_id |-> jobs[j].document_id, run |-> j,
                 idx |-> jobs[j].total_clauses + 1]}
          /\ jobs' = [jobs EXCEPT ![j].total_clauses = @ + 1]
     ELSE /\ jobs' = [jobs EXCEPT ![j] = Raise(@, E_Storage, "p_handler")]
          /\ UNCHANGED clauses
  /\ UNCHANGED << docs, files, env >>

\* tasks.py:102-114  stamp the document Complete
P_Complete(j, ok) ==
  /\ jobs[j].pc = "p_save"
  /\ jobs[j].total_clauses = jobs[j].n_clauses
  /\ LET id == jobs[j].document_id IN
     IF ok
     THEN /\ docs' = UpdateOne(docs, id,
                               CompleteUpdate(j, jobs[j].total_clauses))
          /\ jobs' = [jobs EXCEPT ![j].pc = "p_report",
                                  ![j].completed = id \in DOMAIN docs]
     ELSE /\ jobs' = [jobs EXCEPT ![j] = Raise(@, E_Storage, "p_handler")]
          /\ UNCHANGED docs
  /\ UNCHANGED << files, clauses, env >>

\* tasks.py:116-126  report SUCCESS
P_Report(j) ==
  /\ jobs[j].pc = "p_report"
  /\ jobs' = [jobs EXCEPT ![j] = [Report(@, "SUCCESS") EXCEPT !.pc = "p_return"]]
  /\ UNCHANGED << docs, files, clauses, env >>

\* tasks.py:128-133  build the return value
P_Return(j) ==
  /\ jobs[j].pc = "p_return"
  /\ jobs' = [jobs EXCEPT ![j] =
       IF HasStartedKey(Get(@.document))
       THEN [Report(@, "SUCCESS") EXCEPT !.returned = TRUE, !.pc = "done"]
       ELSE Raise(@, E_KeyError, "p_handler")]
  /\ UNCHANGED << docs, files, clauses, env >>

\* tasks.py:135-158  except: best-effort Error stamp
P_Handler(j, ok) ==
  /\ jobs[j].pc = "p_handler"
  /\ LET id == jobs[j].document_id IN
     /\ docs' = IF ok THEN UpdateOne(docs, id, ErrorUpdate(j, jobs[j].err))
                ELSE docs
     /\ jobs' = [jobs EXCEPT ![j].pc = "p_fail",
                             ![j].stamped = ok /\ id \in DOMAIN docs]
  /\ UNCHANGED << files, clauses, env >>

\* self.retry(exc=e) in the except clause: the job goes back to the queue
P_FailRetry(j) ==
  /\ jobs[j].pc = "p_fail"
  /\ jobs' = [jobs EXCEPT ![j] = [Report(@, "PENDING") EXCEPT !.pc = "queued"]]
  /\ UNCHANGED << docs, files, clauses, env >>

\* tasks.py:160-170  report FAILURE, re-raise
P_Fail(j) ==
  /\ jobs[j].pc = "p_fail"
  /\ jobs' = [jobs EXCEPT ![j] =
       [Report(@, "FAILURE") EXCEPT !.raised = jobs[j].err, !.pc = "done"]]
  /\ UNCHANGED << docs, files, clauses, env >>

\* ------------------------------------------- analyze_document_with_playbook
\* tasks.py:178-197  load the document and the playbook
B_Load(j, ok) ==
  /\ jobs[j].pc = "b_load"
  /\ LET job == Report(jobs[j], "PROGRESS")
         id == job.document_id
         pb == job.playbook_id
         valid == ObjectIdValid(id) /\ ObjectIdValid(pb)
         document == IF valid THEN FindOne(docs, id) ELSE None
     IN jobs' = [jobs EXCEPT ![j] =
          IF ~ok THEN Raise(job, E_Storage, "b_fail")
          ELSE IF ~valid THEN Raise(job, E_InvalidIds, "b_fail")
          ELSE IF IsNone(document) THEN Raise(job, E_DocNotFound, "b_fail")
          ELSE IF pb \notin Playbooks
               THEN Raise(job, E_PlaybookNotFound, "b_fail")
          ELSE [job EXCEPT !.document = document, !.pc = "b_analyze"]]
  /\ UNCHANGED << docs, files, clauses, env >>

\* tasks.py:203-214  re-extract, analyse with the playbook, report SUCCESS
B_Analyze(j) ==
  /\ jobs[j].pc = "b_analyze"
  /\ LET job == Report(jobs[j], "PROGRESS")
         document == Get(job.document)
         extracted_text == ExtractText(files, document.file_path,
                                       document.mime_type)
         analysis_result == AnalyzeDocument(extracted_text)
         job2 == [job EXCEPT !.extracted_text = extracted_text,
                             !.analyzed = TRUE]
     IN jobs' = [jobs EXCEPT ![j] =
          IF IsNone(analysis_result) THEN Raise(job2, E_TypeError, "b_fail")
          ELSE [Report(job2, "SUCCESS") EXCEPT
                  !.n_clauses = Get(analysis_result), !.pc = "b_return"]]
  /\ UNCHANGED << docs, files, clauses, env >>

\* tasks.py:216  return analysis_result
B_Return(j) ==
  /\ jobs[j].pc = "b_return"
  /\ jobs' = [jobs EXCEPT ![j].returned = TRUE, ![j].pc = "done"]
  /\ UNCHANGED << docs, files, clauses, env >>

\* the except clause stamps the document Error as process_document does
B_FailStamp(j) ==
  /\ jobs[j].pc = "b_fail"
  /\ docs' = UpdateOne(docs, jobs[j].document_id, ErrorUpdate(j, jobs[j].err))
  /\ jobs' = [jobs EXCEPT ![j] =
       [Report(@, "FAILURE") EXCEPT !.raised = jobs[j].err, !.pc = "done"]]
  /\ UNCHANGED << files, clauses, env >>

\* tasks.py:218-228  report FAILURE, re-raise
B_Fail(j) ==
  /\ jobs[j].pc = "b_fail"
  /\ jobs' = [jobs EXCEPT ![j] =
       [Report(@, "FAILURE") EXCEPT !.raised = jobs[j].err, !.pc = "done"]]
  /\ UNCHANGED << docs, files, clauses, env >>

\* ------------------------------------------------------------ HTTP handlers
\* the response of a request that is over
Respond(req, code) == [req EXCEPT !.pc = "done", !.code = code, !.doc = None]

\* the validation without its last check, of the content type
UploadCheckNoMime(ext, size, mime) ==
  IF ext = "" THEN 400
  ELSE IF ext \notin ALLOWED_EXTENSIONS THEN 400
  ELSE IF size > MAX_FILE_SIZE THEN 413
  ELSE 202

\* documents.py:48-77  the validation of upload_document, in the order of
\* the code: the status code of the rejection, 202 when the file is accepted
UploadCheck(ext, size, mime) ==
  IF ext = "" THEN 400
  ELSE IF ext \notin ALLOWED_EXTENSIONS THEN 400
  ELSE IF size > MAX_FILE_SIZE THEN 413
  ELSE IF mime \notin ALLOWED_MIME_TYPES THEN 400
  ELSE 202

\* documents.py:36-130  POST /upload with its response; fail names the call
\* of lines 79-112 that raises (file write, insert_one, delay), answered 500
PostUpload(user, ext, size, mime, units, fail) ==
  /\ http.pc = "done"
  /\ LET code == UploadCheck(ext, size, mime)
         d == NewDocId
         req == [NoRequest EXCEPT !.op = "upload", !.user = user,
                                  !.input = << ext, size, mime >>]
     IN IF code # 202
        THEN /\ http' = Respond(req, code)
             /\ UNCHANGED << docs, files, jobs >>
        ELSE /\ FreeJobs # {}
             /\ files' = IF fail = "write" THEN files ELSE (d :> units) @@ files
             /\ docs' = IF fail \in {"write", "insert"} THEN docs
                        ELSE (d :> [user_id |-> user, file_path |-> d,
                                    mime_type |-> mime, status |-> PENDING,
                                    total_clauses_found |-> 0,
                                    document_metadata |-> 0,
                                    error_message |-> None,
                                    processing_started_at |-> 0,
                                    processing_completed_at |-> 0,
                                    extracted_text_length |-> None]) @@ docs
             /\ jobs' = IF fail = "none"
                        THEN Enqueue(NewJobId, "process", d, GhostId) ELSE jobs
             /\ http' = IF fail = "none"
                        THEN Respond([req EXCEPT !.document_id = d], 202)
                        ELSE Respond(req, 500)
  /\ UNCHANGED << clauses, pool, call >>

\* documents.py:403-434  DELETE /{document_id}: validate the id, find the
\* caller's document
delete_document(user, id, ok) ==
  /\ http.pc = "done"
  /\ LET req == [NoRequest EXCEPT !.op = "delete", !.user = user,
                                  !.document_id = id]
         doc == IF ObjectIdValid(id) THEN FindOne(docs, id) ELSE None
     IN http' =
          IF ~ObjectIdValid(id) THEN Respond(req, 400)
          ELSE IF ~ok THEN Respond(req, 500)
          ELSE IF IsNone(doc) \/ Get(doc).user_id # user THEN Respond(req, 404)
          ELSE [req EXCEPT !.doc = doc, !.pc = "d_clauses"]
  /\ UNCHANGED << docs, files, clauses, jobs, pool, call >>

\* delete_many({"document_id": id})
DeleteMany(coll, id) == {c \in coll : c.document_id # id}

\* the clause rows are left in place
DeleteManyNothing(coll, id) == coll

\* delete_one({"_id": id})
DeleteOne(coll, id) == [d \in DOMAIN coll \ {id} |-> coll[d]]

\* documents.py:436-437  delete the clause rows of the document
D_Clauses(ok) ==
  /\ http.pc = "d_clauses"
  /\ IF ok
     THEN /\ clauses' = DeleteMany(clauses, http.document_id)
          /\ http' = [http EXCEPT !.pc = "d_doc"]
     ELSE /\ http' = Respond(http, 500)
          /\ UNCHANGED clauses
  /\ UNCHANGED << docs, files, jobs, pool, call >>

\* documents.py:439-440  delete the document record
D_Doc(ok) ==
  /\ http.pc = "d_doc"
  /\ IF ok
     THEN /\ docs' = DeleteOne(docs, http.document_id)
          /\ http' = [http EXCEPT !.pc = "d_file"]
     ELSE /\ http' = Respond(http, 500)
          /\ UNCHANGED docs
  /\ UNCHANGED << files, clauses, jobs, pool, call >>

\* documents.py:442-449  remove the file (a failure is only logged), 204
D_File(ok) ==
  /\ http.pc = "d_file"
  /\ files' = IF ok THEN DeleteOne(files, Get(http.doc).file_path) ELSE files
  /\ http' = Respond(http, 204)
  /\ UNCHANGED << docs, clauses, jobs, pool, call >>

\* the authenticated users that send requests: the uploader and another
Callers == Users \cup {2}

\* find_one({"_id": id, "user_id": user})
FindOwned(coll, id, user) ==
  IF id \in DOMAIN coll /\ coll[id].user_id = user THEN Some(coll[id]) ELSE None

\* DocumentResponse: the fields of the record a response shows
DocumentResponse(id, doc) ==
  [id |-> id, status |-> doc.status,
   total_clauses_found |-> doc.total_clauses_found,
   processing_completed_at |-> doc.processing_completed_at,
   error_message |-> doc.error_message]

\* what the three GET handlers of a document share (documents.py:185-205,
\* 238-258, 298-319): 400 for a malformed id, 500 when find_one raises, 404
\* when the caller has no document of that id, 200
ReadCheck(user, id, ok) ==
  IF ~ObjectIdValid(id) THEN 400
  ELSE IF ~ok THEN 500
  ELSE IF IsNone(FindOwned(docs, id, user)) THEN 404
  ELSE 200

\* the request of a GET handler
ReadRequest(op, user, id) ==
  [NoRequest EXCEPT !.op = op, !.user = user, !.document_id = id]

\* documents.py:175-226  GET /{document_id}
get_document(user, id, ok) ==
  /\ http.pc = "done"
  /\ LET code == ReadCheck(user, id, ok)
         req == ReadRequest("get_document", user, id)
     IN http' = IF code # 200 THEN Respond(req, code)
                ELSE [Respond(req, 200) EXCEPT
                        !.body = DocumentResponse(id, docs[id])]
  /\ UNCHANGED << docs, files, clauses, jobs, pool, call >>

\* documents.py:260-269  the progress shown for a status
StatusProgress(st) ==
  IF st = PROCESSING THEN 50 ELSE IF st = COMPLETE THEN 100 ELSE 0

\* documents.py:228-286  GET /{document_id}/status
get_document_status(user, id, ok) ==
  /\ http.pc = "done"
  /\ LET code == ReadCheck(user, id, ok)
         req == ReadRequest("get_document_status", user, id)
     IN http' = IF code # 200 THEN Respond(req, code)
                ELSE [Respond(req, 200) EXCEPT
                        !.body = [id |-> id, status |-> docs[id].status,
                                  progress |-> StatusProgress(docs[id].status),
                                  error_message |-> docs[id].error_message,
                                  total_clauses_found |->
                                    docs[id].total_clauses_found]]
  /\ UNCHANGED << docs, files, clauses, jobs, pool, call >>

\* documents.py:288-401  GET /{document_id}/analysis: 400 unless the
\* document is Complete, else the document and its clause rows
get_document_analysis(user, id, ok) ==
  /\ http.pc = "done"
  /\ LET code == ReadCheck(user, id, ok)
         req == ReadRequest("get_document_analysis", user, id)
     IN http' = IF code # 200 THEN Respond(req, code)
                ELSE IF docs[id].status # COMPLETE THEN Respond(req, 400)
                ELSE [Respond(req, 200) EXCEPT
                        !.body = [document |-> DocumentResponse(id, docs[id]),
                                  clauses |-> {c \in clauses : c.document_id = id}]]
  /\ UNCHANGED << docs, files, clauses, jobs, pool, call >>

\* analysis.py:161-251  POST /analyze: AnalysisRequest.document_id is an int
\* (schemas.py:186), ObjectId(int) raises TypeError and the bare except of
\* lines 180-186 answers 400: nothing is looked up or enqueued
post_analyze(user, id) ==
  /\ http.pc = "done"
  /\ http' = Respond([NoRequest EXCEPT !.op = "analyze", !.user = user,
                                       !.document_id = id], 400)
  /\ UNCHANGED << docs, files, clauses, jobs, pool, call >>

\* ----------------------------------------------------------- specification
\* one step of the worker that runs process_document as job j
ProcessStep(j) ==
  \/ WorkerStart(j)
  \/ \E ok \in BOOLEAN : P_Load(j, ok)
  \/ \E ok \in BOOLEAN : P_Mark(j, ok)
  \/ P_Extract(j)
  \/ \E ok \in BOOLEAN : P_SaveLen(j, ok)
  \/ P_Analyze(j)
  \/ \E ok \in BOOLEAN : P_Insert(j, ok)
  \/ \E ok \in BOOLEAN : P_Complete(j, ok)
  \/ P_Report(j)
  \/ P_Return(j)
  \/ \E ok \in BOOLEAN : P_Handler(j, ok)
  \/ P_Fail(j)

\* one step of the worker that runs analyze_document_with_playbook as job j
PlaybookStep(j) ==
  \/ \E ok \in BOOLEAN : B_Load(j, ok)
  \/ B_Analyze(j)
  \/ B_Return(j)
  \/ B_Fail(j)

\* one step of the worker that runs job j
JobStep(j) == ProcessStep(j) \/ PlaybookStep(j)

Next ==
  \/ \E user \in Users, ext \in {".pdf", ".doc", ".txt", ""},
        size \in {1, MAX_FILE_SIZE + 1}, mime \in MimeSamples,
        units \in FileSamples :
       upload_document(user, ext, size, mime, units)
  \/ \E d \in {BadId, GhostId} \cup DOMAIN docs :
       SubmitTask("process", d, GhostId)
  \/ \E d \in {BadId, GhostId} \cup DOMAIN docs, pb \in {GhostId} \cup Playbooks :
       /\ d \in DOMAIN docs \/ pb \in Playbooks
       /\ SubmitTask("playbook", d, pb)
  \/ \E j \in JobIds : JobStep(j)

Spec == Init /\ [][Next]_vars

\* the worker pool runs every job it has taken or been handed
FairSpec == Spec /\ \A j \in JobIds : WF_vars(JobStep(j))

\* celery_app.AsyncResult(job_id).state: an id the result backend does not
\* know reads PENDING
AsyncResultState(job) == IF job.state = "NONE" THEN "PENDING" ELSE job.state

\* analysis.py:271-300  the response body for a job state; progress "info"
\* is the progress of the job's last update_state
JobStatusBody(state) ==
  IF state = "PENDING"
  THEN [state |-> state, progress |-> "0",
        status |-> "Job is waiting to be processed"]
  ELSE IF state = "PROGRESS"
  THEN [state |-> state, progress |-> "info", status |-> "info"]
  ELSE IF state = "SUCCESS"
  THEN [state |-> state, progress |-> "100",
        status |-> "Analysis completed successfully"]
  ELSE [state |-> state, progress |-> "0", status |-> "Analysis failed"]

\* job_result.result of a job in state SUCCESS: the meta of the SUCCESS
\* report (tasks.py:116-124, 214) until the task has returned, then its
\* return value (tasks.py:128-133; tasks.py:216, the analysis result with the
\* clauses found and the document id in its metadata)
JobResult(job) ==
  IF job.kind = "process"
  THEN [document_id |-> job.document_id, total_clauses |-> job.total_clauses]
  ELSE IF job.returned
  THEN [document_id |-> job.document_id, clauses |-> job.n_clauses]
  ELSE [status |-> "Playbook analysis completed"]

\* analysis.py:253-302  GET /job/{job_id}/status: any authenticated user,
\* any job id; the SUCCESS response carries job_result.result
get_analysis_job_status(user, j) ==
  /\ http.pc = "done"
  /\ LET state == AsyncResultState(jobs[j])
         body == JobStatusBody(state)
     IN http' = [Respond([NoRequest EXCEPT !.op = "poll", !.user = user,
                                           !.input = << j >>], 200)
                  EXCEPT !.body = IF state = "SUCCESS"
                                  THEN [result |-> JobResult(jobs[j])] @@ body
                                  ELSE body]
  /\ UNCHANGED << docs, files, clauses, jobs, pool, call >>

\* ------------------------------------------------ the API and the workers
\* uploads with their responses (accepted while an id of DocIds is free),
\* deletes of any id, polls of any job, and the process_document job an
\* upload enqueues, on the pool of Init
ApiNext ==
  \/ \E user \in Users, ext \in {".pdf", ".txt", ""},
        size \in {1, MAX_FILE_SIZE + 1},
        mime \in {"application/pdf", "text/plain"},
        fail \in {"none", "write", "insert", "delay"} :
       /\ UploadCheck(ext, size, mime) = 202 => NewDocId \in DocIds
       /\ PostUpload(user, ext, size, mime, << "text" >>, fail)
  \/ \E user \in Users, id \in {BadId, GhostId} \cup DocIds, ok \in BOOLEAN :
       delete_document(user, id, ok)
  \/ \E ok \in BOOLEAN : D_Clauses(ok)
  \/ \E ok \in BOOLEAN : D_Doc(ok)
  \/ \E user \in Users, j \in JobIds : get_analysis_job_status(user, j)
  \/ \E ok \in BOOLEAN : D_File(ok)
  \/ \E j \in JobIds : ProcessStep(j)

ApiSpec == Init /\ [][ApiNext]_vars

\* ------------------------------------------------------ the API, two users
\* one user uploads a document; both users read, delete and poll; the job of
\* the upload and a playbook job a producer submits for the document run
AuthNext ==
  \/ \E user \in Users :
       /\ NewDocId \in DocIds
       /\ PostUpload(user, ".pdf", 1, "application/pdf", << "text" >>, "none")
  \/ \E pb \in Playbooks, d \in DOMAIN docs : SubmitTask("playbook", d, pb)
  \/ \E user \in Callers, id \in {BadId} \cup DocIds, ok \in BOOLEAN :
       get_document(user, id, ok)
  \/ \E user \in Callers, id \in {BadId} \cup DocIds, ok \in BOOLEAN :
       get_document_status(user, id, ok)
  \/ \E user \in Callers, id \in {BadId} \cup DocIds, ok \in BOOLEAN :
       get_document_analysis(user, id, ok)
  \/ \E user \in Callers, id \in DocIds : post_analyze(user, id)
  \/ \E user \in Callers, id \in DocIds : delete_document(user, id, TRUE)
  \/ D_Clauses(TRUE)
  \/ D_Doc(TRUE)
  \/ D_File(TRUE)
  \/ \E user \in Callers, j \in JobIds : get_analysis_job_status(user, j)
  \/ \E j \in JobIds : JobStep(j)

AuthSpec == Init /\ [][AuthNext]_vars

\* ------------------------------------------------ a pool of two workers
\* a deployment with two worker processes
ConcWorkers == {1, 2}

ConcInit ==
  /\ docs = << >>
  /\ files = << >>
  /\ clauses = {}
  /\ jobs = [j \in JobIds |-> NoJob]
  /\ http = NoRequest
  /\ pool = Cardinality(ConcWorkers)
  /\ call = NoCall

\* accepted uploads of PDF files, each enqueuing the job of its own
\* document, and the jobs running two at a time
ConcNext ==
  \/ \E user \in Users, units \in FileSamples :
       PostUpload(user, ".pdf", 1, "application/pdf", units, "none")
  \/ \E j \in JobIds : ProcessStep(j)

ConcSpec == ConcInit /\ [][ConcNext]_vars

\* ------------------------------------------- the services called directly
\* one call per run, from the state of Init: the functions are pure
\* the sentences tried, as their words
SentenceSamples ==
  {<< "The", "Vendor", "shall", "indemnify", "and", "hold", "harmless", "the",
      "Client", "against", "any", "and", "all", "claims" >>,
   << "gross", "negligence", "voids", "the", "insurance", "cover" >>,
   << "the", "vendor", "SHALL", "pay" >>,
   << "this", "agreement", "binds", "both", "sides" >>,
   << "either", "Party", "may", "terminate", "this", "agreement", "for",
      "convenience" >>,
   << "the", "party", "accepts", "unlimited", "liability", "and",
      "liquidated", "damages", "and", "punitive", "damages" >>,
   << "limitation", "of", "liability", "applies", "under", "standard",
      "terms", "in", "good", "faith" >>,
   << "we", "had", "a", "very", "nice", "lunch", "today" >>,
   << "the", "contract", "requires", "a", "personal", "guarantee", "and",
      "an", "assignment" >>,
   << "the", "party", "gives", "a", "personal", "guarantee", "and",
      "indemnification", "and", "assignment" >>,
   << "payment", "terms", "are", "net", "30", "days", "under", "mutual",
      "agreement" >>,
   << "the", "warranty", "covers", "copyrighted", "reliable", "parts",
      "only" >>,
   << "the", "party", "accepts", "unlimited", "liability", "liquidated",
      "damages", "punitive", "damages", "and", "gross", "negligence" >>,
   << "this", "agreement", "is", "made", "in", "good", "faith" >>,
   << "the", "contract", "requires", "an", "assignment", "and", "a",
      "personal", "guarantee" >>,
   << "the", "party", "shall", "hold", "harmless", "and", "hold", "harmless",
      "again" >>,
   << "upon", "termination", "payment", "terms", "are", "net", "30", "days",
      "under", "this", "contract" >>,
   << "the", "party", "shall", "not", "be", "liable", "for", "any", "damages",
      "or", "consequential", "damages", "or", "gross", "negligence" >>}

\* the texts tried: nothing, one sentence (with or without its full stop,
\* or spread over lines and ended twice), two sentences
TextSamples ==
  {<< >>, << ".", "\n" >>}
    \cup SentenceSamples
    \cup {s \o << "." >> : s \in SentenceSamples}
    \cup {<< "\n" >> \o s \o << "\n", "?", "!", "\n" >> : s \in SentenceSamples}
    \cup {s \o << "." >> \o t \o << "." >> : s, t \in SentenceSamples}

\* the strategy names tried: omitted, empty, registered, unknown
StrategyNames == {None, Some(""), Some("rule_based"), Some("ml_model"), Some("xyz")}

\* DocumentParser().extract_text(file_path, mime_type), the file being there
\* or not
CallExtractText(units, exists, mime) ==
  /\ call = NoCall
  /\ call' = [fn |-> "extract_text", units |-> units, exists |-> exists,
              mime_type |-> mime,
              result |-> ExtractText(IF exists THEN 1 :> units ELSE << >>,
                                     1, mime)]
  /\ UNCHANGED << docs, files, clauses, jobs, http, pool >>

\* analysis_service.analyze_document(text, document_id, strategy_name)
CallAnalyzeDocument(text, strategy_name) ==
  /\ call = NoCall
  /\ call' = [fn |-> "analyze_document", text |-> text,
              strategy_name |-> strategy_name,
              result |-> analyze_document(text, strategy_name)]
  /\ UNCHANGED << docs, files, clauses, jobs, http, pool >>

\* the rows the insert loop of process_document stores for a text
\* (tasks.py:83-100) and the average get_document_analysis computes from
\* them (documents.py:359-376)
CallDocumentAnalysis(text) ==
  /\ call = NoCall
  /\ LET cls == RuleBasedAnalyze(text).clauses
         rows == [i \in 1..Len(cls) |-> ClauseDoc(1, cls[i])]
     IN call' = [fn |-> "get_document_analysis", text |-> text, rows |-> rows,
                 overall_risk_score |-> Average(rows)]
  /\ UNCHANGED << docs, files, clauses, jobs, http, pool >>

\* RuleBasedStrategy().analyze(text, id) and MLModelStrategy().analyze(text,
\* id) on the same text
CallStrategies(text) ==
  /\ call = NoCall
  /\ call' = [fn |-> "analyze", text |-> text,
              rule_based |-> RuleBasedAnalyze(text),
              ml_model |-> MLModelAnalyze(text)]
  /\ UNCHANGED << docs, files, clauses, jobs, http, pool >>

\* DocumentParser().get_document_metadata(file_path, mime_type), the file
\* being there or not, well-formed or not
CallGetDocumentMetadata(units, exists, parses, mime) ==
  /\ call = NoCall
  /\ call' = [fn |-> "get_document_metadata", units |-> units,
              exists |-> exists, parses |-> parses, mime_type |-> mime,
              result |-> get_document_metadata(
                           IF exists THEN 1 :> units ELSE << >>, 1, mime, parses)]
  /\ UNCHANGED << docs, files, clauses, jobs, http, pool >>

LibNext ==
  \/ \E units \in FileSamples \cup {<< "text" >>, << "blank" >>},
        exists \in BOOLEAN,
        mime \in ALLOWED_MIME_TYPES \cup {"text/plain", "image/png"} :
       CallExtractText(units, exists, mime)
  \/ \E text \in {None} \cup {Some(t) : t \in TextSamples},
        strategy_name \in StrategyNames :
       CallAnalyzeDocument(text, strategy_name)
  \/ \E text \in TextSamples : CallDocumentAnalysis(text)
  \/ \E text \in TextSamples : CallStrategies(text)
  \/ \E units \in FileSamples, exists \in BOOLEAN, parses \in BOOLEAN,
        mime \in ALLOWED_MIME_TYPES \cup {"text/plain"} :
       CallGetDocumentMetadata(units, exists, parses, mime)

LibSpec == Init /\ [][LibNext]_vars

\* ------------------------------------------------------------------ claims
Proc(j) == jobs[j].kind = "process"
Playbook(j) == jobs[j].kind = "playbook"
Done(j) == jobs[j].pc = "done"
\* the step is one of job j's own
StepOf(j) == jobs'[j] # jobs[j]
\* the text is "" or None
EmptyOrNoText(t) == t = << >> \/ t = << << >> >>
RowsOf(cl, d) == {c \in cl : c.document_id = d}
RowsBy(cl, j) == {c \in cl : c.run = j}

\* C1: a process_document run that was given its document, non-empty text,
\* an analysis result and a successful write at every step up to and
\* including the Complete stamp never enters the except clause: it ends
\* Succeeded and does not stamp the document Error.
C1_UploadRunCompletes ==
  \A j \in JobIds :
    (Proc(j) /\ jobs[j].completed) =>
      /\ IsNone(jobs[j].err)
      /\ ~jobs[j].stamped
      /\ Done(j) => (jobs[j].state = "SUCCESS" /\ jobs[j].returned)

\* C2: a document's status never moves backward: a document that is
\* Complete or Error is never changed again (no field of it), and a document
\* that is Processing never returns to Pending.
C2_StatusMonotone ==
  [][\A d \in DOMAIN docs : d \in DOMAIN docs' =>
       /\ docs[d].status \in {COMPLETE, ERROR} => docs'[d] = docs[d]
       /\ docs[d].status = PROCESSING => docs'[d].status # PENDING]_vars

\* C3: when a process_document run ends Succeeded, the document's
\* total_clauses_found equals the number of clause rows with its id.
C3_CountMatchesRows ==
  [][\A j \in JobIds :
       (Proc(j) /\ jobs[j].pc = "p_return" /\ jobs'[j].pc = "done"
          /\ jobs[j].document_id \in DOMAIN docs') =>
         docs'[jobs[j].document_id].total_clauses_found
           = Cardinality(RowsOf(clauses', jobs[j].document_id))]_vars

\* C4 as stated: a run whose extraction returned empty or no text leaves the
\* document in status Error with the failed-to-extract message.
C4_EmptyTextEndsError ==
  [][\A j \in JobIds :
       (Proc(j) /\ jobs[j].pc = "p_fail" /\ jobs'[j].pc = "done"
          /\ jobs[j].err = Some(E_Extract)
          /\ jobs[j].document_id \in DOMAIN docs') =>
         /\ docs'[jobs[j].document_id].status = ERROR
         /\ docs'[jobs[j].document_id].error_message = Some(E_Extract)]_vars

\* C4 amended: when extraction returns empty or no text the run raises the
\* failed-to-extract error after having marked the document Processing, never
\* invokes the analysis, persists no clause row, never stamps the document
\* Complete, ends Failed with that error, and its Error stamp, when that
\* write succeeds, sets status Error with that message.
C4_EmptyTextFailsJob ==
  [][\A j \in JobIds : (Proc(j) /\ StepOf(j)) =>
       /\ (jobs[j].pc = "p_extract" /\ EmptyOrNoText(jobs'[j].extracted_text))
            => (jobs'[j].pc = "p_handler" /\ jobs'[j].err = Some(E_Extract))
       /\ jobs'[j].err = Some(E_Extract) =>
            /\ EmptyOrNoText(jobs'[j].extracted_text)
            /\ jobs'[j].marked \/ jobs[j].document_id \notin DOMAIN docs'
            /\ ~jobs'[j].analyzed
            /\ ~jobs'[j].completed
            /\ RowsBy(clauses', j) = {}
            /\ jobs'[j].pc \in {"p_handler", "p_fail", "done"}
            /\ jobs'[j].pc = "done" =>
                 (jobs'[j].state = "FAILURE" /\ jobs'[j].raised = Some(E_Extract))
            /\ (jobs[j].pc = "p_handler" /\ jobs'[j].stamped) =>
                 /\ docs'[jobs[j].document_id].status = ERROR
                 /\ docs'[jobs[j].document_id].error_message = Some(E_Extract)]_vars

\* C4 witness: a PDF whose every page failed: the run is over, Failed, and
\* the document was stamped Error with the message
C4_Witness ==
  \E j \in JobIds :
    /\ Proc(j) /\ Done(j) /\ jobs[j].err = Some(E_Extract)
    /\ jobs[j].extracted_text = Some(<< >>)
    /\ jobs[j].stamped
    /\ docs[jobs[j].document_id].status = ERROR
    /\ docs[jobs[j].document_id].mime_type = "application/pdf"

\* C5: the except clause of a run that has not marked the document
\* Processing leaves every document unchanged.
C5_ErrorOnlyAfterProcessing ==
  [][\A j \in JobIds :
       (Proc(j) /\ jobs[j].pc = "p_handler" /\ StepOf(j) /\ ~jobs[j].marked)
         => docs' = docs]_vars

\* C6: a process_document job whose id is malformed or names no stored
\* document goes from the load straight to the except clause, changes no
\* document and no clause row at any of its steps, and ends Failed.
C6_BadIdNoMutation ==
  [][\A j \in JobIds :
       (Proc(j) /\ StepOf(j)
          /\ (jobs[j].document_id < 0 \/ jobs[j].document_id \notin DOMAIN docs))
         => /\ docs' = docs
            /\ clauses' = clauses
            /\ jobs[j].pc = "p_load" => jobs'[j].pc = "p_handler"
            /\ jobs'[j].pc \in {"queued", "p_load", "p_handler", "p_fail", "done"}
            /\ jobs'[j].pc = "done" =>
                 (jobs'[j].state = "FAILURE" /\ ~jobs'[j].returned
                    /\ ~IsNone(jobs'[j].raised))]_vars

\* C6 witness: a job with a malformed id and a job with the id of no
\* document have both run to the end and Failed
C6_Witness ==
  \E j, k \in JobIds :
    /\ Proc(j) /\ Done(j) /\ jobs[j].document_id = BadId
    /\ jobs[j].err = Some(E_InvalidId) /\ jobs[j].state = "FAILURE"
    /\ Proc(k) /\ Done(k) /\ jobs[k].document_id = GhostId
    /\ jobs[k].err = Some(E_DocNotFound) /\ jobs[k].state = "FAILURE"

\* C7: a step of process_document that raises enters the except clause; the
\* except clause keeps the exception whether or not its Error stamp is
\* written, a written stamp sets status Error, the exception's message and
\* the completion timestamp, and the job ends Failed with the original
\* exception re-raised.
C7_FailureReported ==
  [][\A j \in JobIds : (Proc(j) /\ StepOf(j)) =>
       /\ (IsNone(jobs[j].err) /\ ~IsNone(jobs'[j].err))
            => jobs'[j].pc = "p_handler"
       /\ ~IsNone(jobs[j].err) =>
            /\ jobs'[j].err = jobs[j].err
            /\ jobs[j].pc \in {"p_handler", "p_fail"}
       /\ jobs[j].pc = "p_handler" =>
            /\ jobs'[j].pc = "p_fail"
            /\ ~IsNone(jobs[j].err)
            /\ jobs'[j].stamped =>
                 /\ docs'[jobs[j].document_id].status = ERROR
                 /\ docs'[jobs[j].document_id].error_message = jobs[j].err
                 /\ docs'[jobs[j].document_id].processing_completed_at = j
       /\ jobs[j].pc = "p_fail" =>
            /\ jobs'[j].pc = "done"
            /\ jobs'[j].state = "FAILURE"
            /\ jobs'[j].raised = jobs[j].err
            /\ ~jobs'[j].returned]_vars

\* C7 witness: a run that raised, whose Error stamp failed although the
\* document exists, and that still ended Failed with the exception re-raised
C7_Witness ==
  \E j \in JobIds :
    /\ Proc(j) /\ Done(j) /\ jobs[j].document_id \in DOMAIN docs
    /\ ~jobs[j].stamped /\ jobs[j].state = "FAILURE"
    /\ jobs[j].raised = Some(E_Extract)
    /\ docs[jobs[j].document_id].status = PROCESSING

\* C8: once a job has reported SUCCESS or FAILURE it never reports another
\* state, and a job never returns to PENDING.
C8_TerminalAbsorbing ==
  [][\A j \in JobIds :
       /\ jobs[j].state = "SUCCESS" => jobs'[j].state = "SUCCESS"
       /\ jobs[j].state = "FAILURE" => jobs'[j].state = "FAILURE"
       /\ jobs[j].state \in {"STARTED", "PROGRESS"} =>
            jobs'[j].state \in {"STARTED", "PROGRESS", "SUCCESS", "FAILURE"}]_vars

\* C9: every job a worker has taken eventually ends, Succeeded or Failed:
\* from some point on no job is running, and since a job that is running
\* never goes back to the queue, never reports a state outside STARTED,
\* PROGRESS, SUCCESS, FAILURE, and stops only as SUCCESS or FAILURE, each job
\* that ever ran has by then ended in one of the two.
C9_RunningTerminates ==
  /\ <>[](\A j \in JobIds : jobs[j].pc \in {"none", "queued", "done"})
  /\ [][\A j \in JobIds : jobs[j].pc \notin {"none", "queued"} =>
          /\ jobs'[j].pc \notin {"none", "queued"}
          /\ jobs'[j].state \in {"STARTED", "PROGRESS", "SUCCESS", "FAILURE"}
          /\ jobs'[j].pc = "done" => jobs'[j].state \in {"SUCCESS", "FAILURE"}
          /\ jobs[j].pc = "done" => jobs'[j] = jobs[j]]_vars

\* C9 witness: one job has ended Succeeded and another Failed
C9_Witness ==
  \E j, k \in JobIds :
    /\ Done(j) /\ jobs[j].state = "SUCCESS" /\ jobs[j].returned
    /\ Done(k) /\ jobs[k].state = "FAILURE" /\ ~IsNone(jobs[k].raised)

\* C10: a playbook job whose re-extraction yields empty or no text ends
\* Failed with the failed-to-extract error, and a playbook job ends Succeeded
\* only with non-empty text.
C10_PlaybookSameFailure ==
  \A j \in JobIds :
    (Playbook(j) /\ Done(j) /\ jobs[j].analyzed) =>
      /\ EmptyOrNoText(jobs[j].extracted_text) =>
           (jobs[j].state = "FAILURE" /\ jobs[j].raised = Some(E_Extract))
      /\ jobs[j].state = "SUCCESS" => ~EmptyOrNoText(jobs[j].extracted_text)

\* C11: once delete_document has answered 204 for a document, no clause
\* row carries that document's id, in that state and afterwards, whatever a
\* process_document job of that document was doing meanwhile.
C11_DeleteCascades ==
  (http.op = "delete" /\ http.code = 204) =>
    RowsOf(clauses, http.document_id) = {}

\* process_document run from start to end with no other activity and every
\* storage call returning: the record it leaves, from the record as loaded,
\* and the number of rows it inserts
RunAlone(document, fs, j) ==
  LET marked == SetFields(document, ProcessingUpdate(j))
      text == ExtractText(fs, document.file_path, document.mime_type)
      sized == SetFields(marked, TextLengthUpdate(text))
      n == Get(AnalyzeDocument(text))
      stamped == SetFields(sized, CompleteUpdate(j, n))
  IN IF Falsy(text)
     THEN [doc |-> SetFields(marked, ErrorUpdate(j, Some(E_Extract))), rows |-> 0]
     ELSE IF HasStartedKey(document) THEN [doc |-> stamped, rows |-> n]
     ELSE [doc |-> SetFields(stamped, ErrorUpdate(j, Some(E_KeyError))),
           rows |-> n]

\* C12: with jobs of distinct documents running two at a time, every step of
\* a job leaves the files, every other document and every other document's
\* clause rows as they were and adds only rows of its own document, and when
\* the job ends, no storage call of it having failed, its document's record
\* and clause rows are those of the job run alone.
C12_JobsIndependent ==
  [][\A j \in JobIds : (Proc(j) /\ StepOf(j)) =>
       LET d == jobs[j].document_id IN
       /\ files' = files
       /\ DOMAIN docs' = DOMAIN docs
       /\ \A e \in DOMAIN docs \ {d} : docs'[e] = docs[e]
       /\ clauses \subseteq clauses'
       /\ \A c \in clauses' \ clauses : c.document_id = d /\ c.run = j
       /\ (/\ jobs'[j].pc = "done"
           /\ jobs[j].err # Some(E_Storage)
           /\ IsNone(jobs[j].err) \/ jobs[j].stamped) =>
            LET alone == RunAlone(Get(jobs[j].document), files, j) IN
            /\ docs'[d] = alone.doc
            /\ RowsOf(clauses', d) = RowsBy(clauses', j)
            /\ Cardinality(RowsOf(clauses', d)) = alone.rows]_vars

\* C12 witness: two jobs of distinct documents have ended after running at
\* the same time, one of a document with text, one of a document without
C12_Witness ==
  \E j, k \in JobIds :
    /\ Proc(j) /\ Proc(k) /\ jobs[j].document_id # jobs[k].document_id
    /\ Done(j) /\ jobs[j].err = Some(E_KeyError) /\ RowsBy(clauses, j) # {}
    /\ jobs[k].pc = "p_fail" /\ jobs[k].err = Some(E_Extract)
    /\ docs[jobs[k].document_id].status = ERROR
    /\ docs[jobs[j].document_id].total_clauses_found = 1

\* the step is the serving of an upload request
UploadStep == http'.op = "upload" /\ http' # http

\* C13: an upload with no file name, an extension outside .pdf/.docx/.doc,
\* more than 10 MB of content or a content type outside the three accepted
\* ones is answered with an error and changes no document, no file, no clause
\* row and no job; and an upload step enqueues a job only for a document it
\* has just inserted, with status Pending and an accepted content type.
C13_RejectedUploadNoEffect ==
  [][UploadStep =>
       LET ext == http'.input[1]
           size == http'.input[2]
           mime == http'.input[3]
       IN
       /\ (\/ ext = ""
           \/ ext \notin {".pdf", ".docx", ".doc"}
           \/ size > 10
           \/ mime \notin ALLOWED_MIME_TYPES) =>
            /\ http'.code \in {400, 413}
            /\ docs' = docs /\ files' = files /\ jobs' = jobs
            /\ clauses' = clauses
       /\ \A j \in JobIds : jobs'[j] # jobs[j] =>
            LET d == jobs'[j].document_id IN
            /\ jobs[j].kind = "none" /\ jobs'[j].kind = "process"
            /\ jobs'[j].pc = "queued"
            /\ d \notin DOMAIN docs /\ d \in DOMAIN docs'
            /\ docs'[d].status = PENDING
            /\ docs'[d].mime_type \in ALLOWED_MIME_TYPES
            /\ d \in DOMAIN files'
            /\ http'.code = 202]_vars

\* C13 witness: after an accepted upload, an upload with an accepted
\* extension and size and the content type text/plain has been answered 400
C13_Witness ==
  /\ http.op = "upload" /\ http.code = 400
  /\ http.input = << ".pdf", 1, "text/plain" >>
  /\ DOMAIN docs = {1} /\ DOMAIN files = {1}
  /\ \E j \in JobIds : Proc(j) /\ jobs[j].document_id = 1

\* C14: the response to a poll of a job agrees with what the job is doing
\* at that moment: a queued job reads as waiting, a job a worker is running
\* reads as in progress, a job that returned reads as completed with
\* progress 100, and only a job that raised reads as failed.
C14_PollMatchesJob ==
  [][(http'.op = "poll" /\ http' # http) =>
       LET job == jobs[http'.input[1]]
           body == http'.body
       IN job.kind # "none" =>
            /\ job.pc = "queued" =>
                 body.status = "Job is waiting to be processed"
            /\ job.pc \notin {"none", "queued", "done"} =>
                 body.state = "PROGRESS"
            /\ (job.pc = "done" /\ job.returned) =>
                 (body.status = "Analysis completed successfully"
                    /\ body.progress = "100")
            /\ body.status = "Analysis failed" =>
                 (job.pc = "done" /\ ~IsNone(job.raised))]_vars

\* C15: extract_text on a file that is there, with a content type outside
\* the three supported ones, gives a result that no call on a supported type gives, neither one that
\* extracted text (empty or not) nor one whose parser failed.
C15_UnsupportedTypeIsDistinct ==
  (/\ call.fn = "extract_text" /\ call.exists
   /\ call.mime_type \notin ALLOWED_MIME_TYPES) =>
    \A units \in FileSamples, mime \in ALLOWED_MIME_TYPES :
      ExtractText(1 :> units, 1, mime) # call.result

\* C16: analyze_document raises or not whatever the strategy name (only a
\* text of None raises), and with the name omitted, empty or not registered
\* its clauses and summary are those of the rule-based strategy on that text
\* and strategy_used is rule_based.
C16_UnknownStrategyFallsBack ==
  call.fn = "analyze_document" =>
    LET name == call.strategy_name
        result == call.result
    IN /\ IsNone(result.raised) <=> ~IsNone(call.text)
       /\ (/\ ~IsNone(call.text)
           /\ IsNone(name) \/ Get(name) \notin {"rule_based", "ml_model"}) =>
            /\ result.clauses = RuleBasedAnalyze(Get(call.text)).clauses
            /\ result.summary = RuleBasedAnalyze(Get(call.text)).summary
            /\ result.strategy_used = "rule_based"
            /\ result.metadata.strategy = "rule_based"

\* C16 witness: the name xyz on the two-sentence text whose second sentence
\* is the only clause
C16_Witness ==
  /\ call.fn = "analyze_document" /\ call.strategy_name = Some("xyz")
  /\ ~IsNone(call.text) /\ Len(SplitIntoSentences(Get(call.text))) = 2
  /\ Len(call.result.clauses) = 1
  /\ call.result.clauses[1].category = "termination"
  /\ call.result.strategy_used = "rule_based"

\* the rows or clauses a call produced
Produced ==
  IF call.fn = "get_document_analysis" THEN call.rows
  ELSE IF call.fn = "analyze_document" /\ ~IsNone(call.text)
       THEN call.result.clauses
  ELSE << >>

\* C17: the level is the step function of the score: from 0.7 critical, from
\* 0.5 high, from 0.3 medium, below low, for every score of [0, 1] in tenths
\* and for the score and level of every clause emitted and every row stored.
C17_LevelIsStepOfScore ==
  /\ \A s \in 0..10 :
       RiskLevel(s) = CASE s >= 7 -> "critical"
                        [] s >= 5 /\ s < 7 -> "high"
                        [] s >= 3 /\ s < 5 -> "medium"
                        [] s < 3 -> "low"
  /\ \A i \in 1..Len(Produced) :
       LET s == Produced[i].risk_score IN
       /\ s \in 0..10
       /\ Produced[i].risk_level
            = CASE s >= 7 -> "critical"
                [] s >= 5 /\ s < 7 -> "high"
                [] s >= 3 /\ s < 5 -> "medium"
                [] s < 3 -> "low"

\* C17 witness: stored rows with the scores 0.3 and 0.7, on the thresholds
C17_Witness ==
  /\ call.fn = "get_document_analysis" /\ Len(call.rows) = 2
  /\ call.rows[1].risk_score = 3 /\ call.rows[1].risk_level = "medium"
  /\ call.rows[2].risk_score = 7 /\ call.rows[2].risk_level = "critical"

\* C18: every clause emitted is a sentence of the normalised text with at
\* least 5 words, one of which contains a term of the legal vocabulary.
C18_ClausesAreLegalSentences ==
  (call.fn = "analyze_document" /\ ~IsNone(call.text)) =>
    \A i \in 1..Len(call.result.clauses) :
      LET sentence == call.result.clauses[i].text IN
      /\ Len(sentence) >= 5
      /\ \E k \in 1..Len(sentence), term \in LegalIndicators :
           Contains(sentence[k], term)
      /\ \E n \in 1..Len(SplitIntoSentences(NormalizeText(Get(call.text)))) :
           SplitIntoSentences(NormalizeText(Get(call.text)))[n] = sentence

\* C18 witness: of a 4-word and a 5-word sentence, each with a legal term,
\* only the second is emitted
C18_Witness ==
  /\ call.fn = "analyze_document"
  /\ call.text = Some(<< "the", "vendor", "SHALL", "pay", ".",
                         "this", "agreement", "binds", "both", "sides", "." >>)
  /\ Len(call.result.clauses) = 1
  /\ call.result.clauses[1].text
       = << "this", "agreement", "binds", "both", "sides" >>

\* C19: overall_risk_score is the sum of the risk scores divided by their
\* number, and 0.0 for no clause, in the summary of an analysis and in the
\* average computed from the stored rows.
C19_OverallIsMean ==
  LET mean == IF call.fn = "get_document_analysis"
              THEN call.overall_risk_score
              ELSE call.result.summary.overall_risk_score
  IN (Produced # << >> \/ call.fn = "get_document_analysis"
        \/ (call.fn = "analyze_document" /\ ~IsNone(call.text))) =>
       /\ mean.den > 0
       /\ mean.num * Len(Produced) = SumScores(Produced, 1) * mean.den
       /\ Produced = << >> => mean.num = 0

\* C19 witness: clauses of scores 0.3 and 0.7, overall 1.0 / 2
C19_Witness ==
  /\ call.fn = "analyze_document" /\ ~IsNone(call.text)
  /\ Len(call.result.clauses) = 2
  /\ call.result.clauses[1].risk_score = 3
  /\ call.result.clauses[2].risk_score = 7
  /\ call.result.summary.overall_risk_score = Quotient(10, 2)

\* the call analysed a text of exactly one sentence
OneSentence ==
  /\ call.fn = "analyze_document" /\ ~IsNone(call.text)
  /\ Len(SplitIntoSentences(NormalizeText(Get(call.text)))) = 1

TheSentence == SplitIntoSentences(NormalizeText(Get(call.text)))[1]

\* one clause, liability, 0.3, medium, a liability advisory and no banner
LiabilityMediumResult ==
  /\ Len(call.result.clauses) = 1
  /\ call.result.clauses[1].category = "liability"
  /\ call.result.clauses[1].risk_score = 3
  /\ call.result.clauses[1].risk_level = "medium"
  /\ \E k \in 1..Len(call.result.clauses[1].recommendations) :
       call.result.clauses[1].recommendations[k]
         \in {"Consider adding mutual liability limitations",
              "Review indemnification scope and exclusions",
              "Ensure adequate insurance requirements"}
  /\ \A k \in 1..Len(call.result.clauses[1].recommendations) :
       call.result.clauses[1].recommendations[k] # HighRiskBanner

\* C20 as stated: a text of one sentence of at least 5 words that matches a
\* liability pattern and has exactly one high-risk phrase and no medium- or
\* low-risk phrase yields one clause: liability, 0.3, medium, a liability
\* advisory, no high-risk banner.
C20_LiabilityScenario ==
  (/\ OneSentence
   /\ Len(TheSentence) >= 5
   /\ MatchesCategory(TheSentence, "liability")
   /\ Cardinality(Found(TheSentence, HighRisk)) = 1
   /\ Found(TheSentence, MediumRisk) = {}
   /\ Found(TheSentence, LowRisk) = {}) => LiabilityMediumResult

\* C20 amended: the same for a sentence that also contains a term of the
\* legal vocabulary, without which no clause is emitted.
C20_LiabilityScenarioLegal ==
  (/\ OneSentence
   /\ Len(TheSentence) >= 5
   /\ \E k \in 1..Len(TheSentence), term \in LegalIndicators :
        Contains(TheSentence[k], term)
   /\ MatchesCategory(TheSentence, "liability")
   /\ Cardinality(Found(TheSentence, HighRisk)) = 1
   /\ Found(TheSentence, MediumRisk) = {}
   /\ Found(TheSentence, LowRisk) = {}) => LiabilityMediumResult

\* C20 witness: the indemnify-and-hold-harmless sentence of the scenario
C20_Witness ==
  /\ OneSentence /\ LiabilityMediumResult
  /\ call.text = Some(<< "The", "Vendor", "shall", "indemnify", "and", "hold",
                         "harmless", "the", "Client", "against", "any", "and",
                         "all", "claims", "." >>)
  /\ call.result.clauses[1].recommendations
       = << "Consider adding mutual liability limitations",
            "Review indemnification scope and exclusions" >>

\* C21: a document carries an error message only while its status is Error:
\* a Pending, Processing or Complete document, also one processed again
\* after a failed run, has no error_message.
C21_MessageOnlyOnError ==
  \A d \in DOMAIN docs :
    docs[d].status # ERROR => IsNone(docs[d].error_message)


\* C22: a process_document run that raised (an insert after the first, the
\* Complete stamp, or anything later) has left no clause row of its own in
\* the store once it is in or past its except clause.
C22_ClausesAllOrNothing ==
  \A j \in JobIds :
    (Proc(j) /\ ~IsNone(jobs[j].err) /\ jobs[j].pc \in {"p_handler", "p_fail", "done"})
      => RowsBy(clauses, j) = {}


\* C23: no step of analyze_document_with_playbook changes a document, a
\* file or a clause row, whether the job ends Succeeded, finds no document or
\* no playbook, or fails in extraction or analysis.
C23_PlaybookLeavesStore ==
  [][\A j \in JobIds : (Playbook(j) /\ StepOf(j)) =>
       /\ docs' = docs
       /\ files' = files
       /\ clauses' = clauses]_vars

\* C23 witness: a playbook job has ended Succeeded with a clause found in
\* the text of a document that is still Pending, with no clause row stored
C23_Witness ==
  \E j \in JobIds :
    /\ Playbook(j) /\ Done(j) /\ jobs[j].state = "SUCCESS" /\ jobs[j].returned
    /\ jobs[j].n_clauses = 1
    /\ jobs[j].document_id \in DOMAIN docs
    /\ docs[jobs[j].document_id].status = PENDING
    /\ clauses = {}


\* clamp(x, 0, 1), in tenths
ClampTenths(x) == IF x < 0 THEN 0 ELSE IF x > 10 THEN 10 ELSE x

\* the number of distinct phrases of a list that occur in the sentence
Distinct(sentence, phrases) ==
  Cardinality({ph \in phrases : HasPhrase(sentence, ph)})

\* C24: the risk score of every clause emitted and every row stored is
\* clamp(0.3 H + 0.2 M - 0.1 L, 0, 1) with H, M, L the numbers of distinct
\* high-, medium- and low-risk phrases in its text; it lies in [0, 1], and
\* two clauses with the same phrases, in whatever order and however often,
\* have the same score.
C24_ScoreIsClampedSum ==
  /\ \A i \in 1..Len(Produced) :
       LET sentence == Produced[i].text
           H == Distinct(sentence, HighRisk)
           M == Distinct(sentence, MediumRisk)
           L == Distinct(sentence, LowRisk)
       IN /\ Produced[i].risk_score = ClampTenths(3 * H + 2 * M - L)
          /\ Produced[i].risk_score >= 0 /\ Produced[i].risk_score <= 10
  /\ \A i, k \in 1..Len(Produced) :
       (\A ph \in HighRisk \cup MediumRisk \cup LowRisk :
          HasPhrase(Produced[i].text, ph) <=> HasPhrase(Produced[k].text, ph))
         => Produced[i].risk_score = Produced[k].risk_score

\* C24 witness: a clause with four high-risk phrases (1.2, clamped to 1.0)
\* and a clause with one low-risk phrase (-0.1, clamped to 0.0)
C24_Witness ==
  /\ call.fn = "analyze_document" /\ ~IsNone(call.text)
  /\ Len(call.result.clauses) = 2
  /\ Distinct(call.result.clauses[1].text, HighRisk) = 4
  /\ call.result.clauses[1].risk_score = 10
  /\ Distinct(call.result.clauses[2].text, LowRisk) = 1
  /\ Distinct(call.result.clauses[2].text, HighRisk \cup MediumRisk) = 0
  /\ call.result.clauses[2].risk_score = 0


\* C25: the category of every clause emitted and every row stored is the
\* first of liability, termination, payment, intellectual_property,
\* confidentiality, governing_law of which a pattern matches its text,
\* however many patterns of a later category match, and general exactly when
\* no pattern of any category matches.
C25_FirstCategoryWins ==
  LET order == << "liability", "termination", "payment",
                  "intellectual_property", "confidentiality", "governing_law" >>
  IN \A i \in 1..Len(Produced) :
       LET sentence == Produced[i].text
           category == Produced[i].category
       IN /\ category = "general" <=>
               \A k \in 1..6 : ~MatchesCategory(sentence, order[k])
          /\ category # "general" =>
               \E k \in 1..6 :
                 /\ category = order[k]
                 /\ MatchesCategory(sentence, category)
                 /\ \A m \in 1..(k - 1) : ~MatchesCategory(sentence, order[m])

\* C25 witness: a clause with one termination pattern and two payment
\* patterns is termination, next to a clause of no pattern, general
C25_Witness ==
  /\ call.fn = "analyze_document" /\ ~IsNone(call.text)
  /\ Len(call.result.clauses) = 2
  /\ call.result.clauses[1].category = "termination"
  /\ Distinct(call.result.clauses[1].text, LegalPatterns["termination"]) = 1
  /\ Distinct(call.result.clauses[1].text, LegalPatterns["payment"]) = 2
  /\ call.result.clauses[2].category = "general"


\* C26: the confidence of every clause emitted and every row stored is 0.3
\* when its category is general and min(1, matched / total + 0.5) otherwise,
\* matched being the number of patterns of its category that match its text
\* and total the number of patterns of that category; a clause that is not
\* general has matched >= 1 and a confidence above 0.5; every confidence lies
\* in [0, 1].
C26_ConfidenceFormula ==
  \A i \in 1..Len(Produced) :
    LET sentence == Produced[i].text
        category == Produced[i].category
        c == Produced[i].confidence_score
    IN /\ c.den > 0 /\ c.num >= 0 /\ c.num <= c.den
       /\ category = "general" => c.num * 10 = 3 * c.den
       /\ category # "general" =>
            LET matched == PatternMatches(sentence, category)
                total == TotalPatterns(category)
            IN /\ total \in {5, 6}
               /\ matched >= 1
               /\ c.num * 2 > c.den
               /\ IF 2 * matched + total >= 2 * total THEN c.num = c.den
                  ELSE c.num * 2 * total = (2 * matched + total) * c.den

\* C26 witness: a liability clause of four of the six patterns (4/6 + 0.5,
\* capped to 1.0) next to a general clause (0.3)
C26_Witness ==
  /\ call.fn = "analyze_document" /\ ~IsNone(call.text)
  /\ Len(call.result.clauses) = 2
  /\ call.result.clauses[1].category = "liability"
  /\ PatternMatches(call.result.clauses[1].text, "liability") = 4
  /\ call.result.clauses[1].confidence_score = Quotient(1, 1)
  /\ call.result.clauses[2].category = "general"
  /\ call.result.clauses[2].confidence_score = Quotient(3, 10)


\* C27: on every text the ml_model strategy returns the clauses and the
\* summary of the rule_based strategy; the results differ in their metadata
\* only, where ml_model names itself as strategy and carries the note of the
\* rule-based fallback, which the rule_based result does not carry.
C27_MLDelegates ==
  call.fn = "analyze" =>
    /\ call.ml_model.clauses = call.rule_based.clauses
    /\ call.ml_model.summary = call.rule_based.summary
    /\ DOMAIN call.ml_model = DOMAIN call.rule_based
    /\ call.ml_model.metadata.strategy = "ml_model"
    /\ call.rule_based.metadata.strategy = "rule_based"
    /\ "note" \in DOMAIN call.ml_model.metadata
    /\ call.ml_model.metadata.note
         = "Using rule-based fallback - ML implementation pending"
    /\ "note" \notin DOMAIN call.rule_based.metadata

\* C27 witness: both strategies on a text of two clauses
C27_Witness ==
  /\ call.fn = "analyze"
  /\ Len(call.rule_based.clauses) = 2
  /\ Len(call.ml_model.clauses) = 2
  /\ call.ml_model.clauses[1].category = "liability"
  /\ call.ml_model.summary.total_clauses = 2
  /\ call.ml_model.metadata.strategy = "ml_model"

\* C28: on the empty text and on a text with no qualifying sentence the
\* rule_based strategy returns no clause and a summary with every summary
\* field, all zero: total_clauses 0, empty risk_distribution and
\* category_breakdown, overall_risk_score 0.0 and high_risk_clauses 0.
C28_EmptySummaryComplete ==
  (call.fn = "analyze" /\ ExtractClauses(NormalizeText(call.text)) = << >>) =>
    LET summary == call.rule_based.summary IN
    /\ call.rule_based.clauses = << >>
    /\ DOMAIN summary = {"total_clauses", "risk_distribution",
                         "category_breakdown", "overall_risk_score",
                         "high_risk_clauses"}
    /\ summary.total_clauses = 0
    /\ summary.risk_distribution = << >>
    /\ summary.category_breakdown = << >>
    /\ summary.overall_risk_score.num = 0
    /\ summary.high_risk_clauses = 0


\* C29: get_document_metadata raises nothing and returns a map, whether the
\* file is missing, unreadable or corrupt; for a file its format-specific
\* helper cannot read, the map has the general keys only.
C29_MetadataNeverRaises ==
  call.fn = "get_document_metadata" =>
    /\ IsNone(call.result.raised)
    /\ {"file_size", "mime_type", "parser_version"}
         \subseteq DOMAIN call.result.metadata
    /\ ~call.parses =>
         DOMAIN call.result.metadata
           = {"file_size", "mime_type", "parser_version"}


\* the step answers a request of the operation
Answers(op) == http' # http /\ http'.op = op /\ http'.pc = "done"

\* a handler of a document, asked by a user who does not own it and reaching
\* its lookup, answers 404 with no body and changes nothing
HandlersCheckOwner ==
  \A op \in {"get_document", "get_document_status",
              "get_document_analysis", "delete"} :
    (/\ Answers(op) /\ http.pc = "done"
     /\ http'.document_id \in DOMAIN docs
     /\ docs[http'.document_id].user_id # http'.user
     /\ http'.code # 500) =>
      /\ http'.code = 404
      /\ http'.body = << >>
      /\ docs' = docs /\ files' = files /\ clauses' = clauses
      /\ jobs' = jobs

\* a poll that returns the result of a job on a document returns it to the
\* owner of the document
PollChecksOwner ==
  (/\ Answers("poll") /\ "result" \in DOMAIN http'.body
   /\ "document_id" \in DOMAIN http'.body.result
   /\ http'.body.result.document_id \in DOMAIN docs) =>
    docs[http'.body.result.document_id].user_id = http'.user

\* C30: get_document, get_document_status, get_document_analysis and
\* delete_document, asked by a user for a document of another user, answer
\* not-found and change nothing; and no response to a poll of a job carries
\* the result of a job on a document the polling user does not own.
C30_OnlyOwnerReads == [][HandlersCheckOwner /\ PollChecksOwner]_vars

====
